---- MODULE Spec2Model ----
(***************************************************************************)
(* The gRPC query server of the EVM module (x/evm/keeper/grpc_query.go):   *)
(* address association lookups, pointer / pointee / pointer-version        *)
(* lookups and the gas-bounded static call.                                *)
(*                                                                         *)
(* A Go string is a sequence of one-character strings, an address a        *)
(* sequence of bytes.  The keeper, the chain store and the EVM engine are  *)
(* not part of grpc_query.go: they are modelled from the specification of  *)
(* the registries and of the static-call bridge.                           *)
(***************************************************************************)
EXTENDS Integers, Sequences, FiniteSets, TLC

VARIABLES
    associations,   \* chain store: the address associations, {[sei, evm]}
    pointers,       \* chain store: the pointer records, {[std, pointee, pointer, version]}
    codeIDs,        \* chain store: stored CW code id per ERC-side pointer type (0: none)
    cw20Version,    \* chain state read by cw20.CurrentVersion(ctx)
    evmState,       \* EVM contract state (one storage word)
    queryGasLimit,  \* q.QueryConfig.GasLimit
    evmCalls,       \* the calls the last handler made to Keeper.StaticCallEVM, as the engine saw them
    gas,            \* the gas meters after the last handler: [ambient, meter, replaced]
    phase,          \* "idle": waiting for a request; "returned": a handler has returned
    req,            \* the request of the handler that returned last
    resp            \* what that handler returned: [err, rsp]

vars == <<associations, pointers, codeIDs, cw20Version, evmState, queryGasLimit,
          evmCalls, gas, phase, req, resp>>

store == <<associations, pointers, codeIDs, cw20Version, evmState>>

-----------------------------------------------------------------------------
(* Strings and addresses.                                                  *)

\* common.AddressLength is 20 bytes; the model scales it down to one byte.
AddressLength == 1

\* The characters request strings are made of: hex digits in both cases, the
\* "x" of the 0x prefix, and "s", the human-readable part of a bech32 address.
Alphabet == {"0", "x", "a", "A", "s"}

\* Request strings are as long as a prefixed hex address ("0x" and the digits).
MaxLen == 2 * AddressLength + 2

Strings == UNION {[1..n -> Alphabet] : n \in 0..MaxLen}

EmptyString == <<>>

\* encoding/hex fromHexChar / reverseHexTable: the value of a hex digit, -1 otherwise.
fromHexChar(c) ==
    CASE c = "0" -> 0 [] c = "1" -> 1 [] c = "2" -> 2 [] c = "3" -> 3
      [] c = "4" -> 4 [] c = "5" -> 5 [] c = "6" -> 6 [] c = "7" -> 7
      [] c = "8" -> 8 [] c = "9" -> 9
      [] c \in {"a", "A"} -> 10 [] c \in {"b", "B"} -> 11
      [] c \in {"c", "C"} -> 12 [] c \in {"d", "D"} -> 13
      [] c \in {"e", "E"} -> 14 [] c \in {"f", "F"} -> 15
      [] OTHER -> -1

\* common.has0xPrefix
has0xPrefix(s) == Len(s) >= 2 /\ s[1] = "0" /\ s[2] \in {"x", "X"}

\* hex.DecodeString with its error dropped (common.Hex2Bytes): the bytes decoded
\* before the first character that is no hex digit.
RECURSIVE Hex2Bytes(_)
Hex2Bytes(s) ==
    IF Len(s) < 2 THEN <<>>
    ELSE IF fromHexChar(s[1]) < 0 \/ fromHexChar(s[2]) < 0 THEN <<>>
    ELSE <<16 * fromHexChar(s[1]) + fromHexChar(s[2])>> \o Hex2Bytes(SubSeq(s, 3, Len(s)))

\* common.FromHex: strips the prefix, pads an odd number of digits with a "0".
FromHex(s) ==
    LET t == IF has0xPrefix(s) THEN SubSeq(s, 3, Len(s)) ELSE s
        u == IF Len(t) % 2 = 1 THEN <<"0">> \o t ELSE t
    IN  Hex2Bytes(u)

\* common.BytesToAddress / Address.SetBytes: crops from the left, pads on the left.
BytesToAddress(b) ==
    LET c == IF Len(b) > AddressLength
             THEN SubSeq(b, Len(b) - AddressLength + 1, Len(b)) ELSE b
    IN  [i \in 1..(AddressLength - Len(c)) |-> 0] \o c

\* common.HexToAddress: never fails.
HexToAddress(s) == BytesToAddress(FromHex(s))

\* common.IsHexAddress: an optional prefix and exactly 2 * AddressLength hex digits.
IsHexAddress(s) ==
    LET t == IF has0xPrefix(s) THEN SubSeq(s, 3, Len(s)) ELSE s
    IN  Len(t) = 2 * AddressLength /\ \A i \in 1..Len(t) : fromHexChar(t[i]) >= 0

HexDigits == <<"0", "1", "2", "3", "4", "5", "6", "7", "8", "9",
               "a", "b", "c", "d", "e", "f">>

\* hex.Encode: two lower-case digits per byte.
LowerHex(b) ==
    [i \in 1..(2 * Len(b)) |->
        LET byte == b[(i + 1) \div 2]
        IN  HexDigits[(IF i % 2 = 1 THEN byte \div 16 ELSE byte % 16) + 1]]

ToUpper(c) ==
    CASE c = "a" -> "A" [] c = "b" -> "B" [] c = "c" -> "C"
      [] c = "d" -> "D" [] c = "e" -> "E" [] c = "f" -> "F" [] OTHER -> c

RECURSIVE SumDigits(_)
SumDigits(buf) ==
    IF Len(buf) = 0 THEN 0 ELSE fromHexChar(buf[1]) + SumDigits(Tail(buf))

\* The i-th nibble of Keccak256(buf).  The hash is replaced by a fixed function of
\* the digits and the position that raises some letters and not others.
HashNibble(buf, i) == (SumDigits(buf) + 7 * i) % 16

\* Address.checksumHex (EIP-55): a letter is upper-case where the hash nibble is > 7.
checksumHex(a) ==
    LET buf == LowerHex(a)
    IN  [i \in 1..Len(buf) |->
            IF HashNibble(buf, i) > 7 THEN ToUpper(buf[i]) ELSE buf[i]]

\* Address.Hex
Hex(a) == <<"0", "x">> \o checksumHex(a)

\* sdk.AccAddress.String: the bech32 form.  The model keeps its shape (a fixed
\* human-readable part, a lower-case payload) and writes the payload in base 16.
AccString(a) == IF Len(a) = 0 THEN EmptyString ELSE <<"s">> \o LowerHex(a)

IsBech32(s) ==
    /\ Len(s) = 1 + 2 * AddressLength
    /\ s[1] = "s"
    /\ \A i \in 2..Len(s) : \E k \in 1..Len(HexDigits) : HexDigits[k] = s[i]

\* sdk.AccAddressFromBech32: fails on anything that is not a bech32 address.
AccAddressFromBech32(s) ==
    IF IsBech32(s)
    THEN [err |-> "nil", addr |-> Hex2Bytes(SubSeq(s, 2, Len(s)))]
    ELSE [err |-> "ErrBech32", addr |-> <<>>]

-----------------------------------------------------------------------------
(* The keeper and the chain store behind it (not in grpc_query.go).        *)

\* types.PointerType: the seven known tags.
CWSide == {"NATIVE", "CW20", "CW721", "CW1155"}   \* the asset is native / CosmWasm, the pointer an EVM contract
ERCSide == {"ERC20", "ERC721", "ERC1155"}         \* the asset is an EVM contract, the pointer a CosmWasm contract
PointerTypes == CWSide \cup ERCSide

\* A PointerType value outside the enum (the field is an int32 on the wire).
UnknownPointerType == "UNKNOWN"

\* native.CurrentVersion, cw20.CurrentVersion(ctx), cw721.CurrentVersion, ...: fixed
\* per standard except for CW20, which is read from the chain state.
CurrentVersion(std) ==
    CASE std = "CW20" -> cw20Version
      [] std \in {"ERC20", "ERC721", "ERC1155"} -> 2
      [] OTHER -> 1

\* Keeper.GetStoredPointerCodeID: 0 while no code has been stored.
GetStoredPointerCodeID(std) == codeIDs[std]

\* What a getter returns when there is no record: zero values and false.
NotFound == [p |-> <<>>, v |-> 0, e |-> FALSE]

\* Keeper.GetSeiAddress
GetSeiAddress(evmAddr) ==
    LET S == {r \in associations : r.evm = evmAddr}
    IN  IF S = {} THEN [addr |-> <<>>, found |-> FALSE]
        ELSE [addr |-> (CHOOSE r \in S : TRUE).sei, found |-> TRUE]

\* Keeper.GetEVMAddress
GetEVMAddress(seiAddr) ==
    LET S == {r \in associations : r.sei = seiAddr}
    IN  IF S = {} THEN [addr |-> <<>>, found |-> FALSE]
        ELSE [addr |-> (CHOOSE r \in S : TRUE).evm, found |-> TRUE]

\* Keeper.GetERC20NativePointer, GetERC20CW20Pointer, GetERC721CW721Pointer,
\* GetERC1155CW1155Pointer (key: the denom or CosmWasm address string) and
\* GetCW20ERC20Pointer, GetCW721ERC721Pointer, GetCW1155ERC1155Pointer (key: the
\* EVM address): the pointer registered for a pointee.
GetPointer(std, pointee) ==
    LET S == {r \in pointers : r.std = std /\ r.pointee = pointee}
    IN  IF S = {} THEN NotFound
        ELSE LET r == CHOOSE r \in S : TRUE
             IN  [p |-> r.pointer, v |-> r.version, e |-> TRUE]

\* Keeper.GetCW20Pointee, GetCW721Pointee, GetCW1155Pointee: keyed by the EVM
\* address of the pointer.
GetPointeeByAddress(std, pointer) ==
    LET S == {r \in pointers : r.std = std /\ r.pointer = pointer}
    IN  IF S = {} THEN NotFound
        ELSE LET r == CHOOSE r \in S : TRUE
             IN  [p |-> r.pointee, v |-> r.version, e |-> TRUE]

\* Keeper.GetNativePointee: takes the pointer as a string and resolves it as an
\* EVM address.
GetNativePointee(pointer) == GetPointeeByAddress("NATIVE", HexToAddress(pointer))

\* Keeper.GetERC20Pointee, GetERC721Pointee, GetERC1155Pointee: keyed by the
\* address string of the CosmWasm pointer.
GetPointeeByString(std, pointer) ==
    LET S == {r \in pointers : r.std = std /\ AccString(r.pointer) = pointer}
    IN  IF S = {} THEN NotFound
        ELSE LET r == CHOOSE r \in S : TRUE
             IN  [p |-> r.pointee, v |-> r.version, e |-> TRUE]

-----------------------------------------------------------------------------
(* The handlers of grpc_query.go as functions of the request and the store. *)

\* A handler's "return nil, err".
NilResponse == [nil |-> TRUE]

Failure(e) == [err |-> e, rsp |-> NilResponse]

Success(r) == [err |-> "nil", rsp |-> r]

\* &types.QueryPointerResponse{Pointer, Version, Exists}; an omitted field is its
\* zero value.
QueryPointerResponse(pointer, version, exists) ==
    [nil |-> FALSE, pointer |-> pointer, version |-> version, exists |-> exists]

\* PointerHexCase without its "if !e" return: a missing record is rendered like a
\* found one.
PointerHexCaseNoEarlyReturn(g) ==
    Success(QueryPointerResponse(Hex(BytesToAddress(g.p)), g.v, g.e))

\* One case of Pointer's switch over a CW-side type: p.Hex().
PointerHexCase(g) ==
    IF ~g.e THEN Success(QueryPointerResponse(EmptyString, 0, g.e))
    ELSE Success(QueryPointerResponse(Hex(g.p), g.v, g.e))

\* One case of Pointer's switch over an ERC-side type: p.String().
PointerStringCase(g) ==
    IF ~g.e THEN Success(QueryPointerResponse(EmptyString, 0, g.e))
    ELSE Success(QueryPointerResponse(AccString(g.p), g.v, g.e))

\* Pointer with a default case that answers "no such pointer" for a type it does
\* not know.
PointerLenientDefault(std, pointee) ==
    IF pointee = EmptyString THEN Failure("ErrMustSpecifyPointee")
    ELSE CASE std = "NATIVE" -> PointerHexCase(GetPointer("NATIVE", pointee))
           [] std = "CW20" -> PointerHexCase(GetPointer("CW20", pointee))
           [] std = "CW721" -> PointerHexCase(GetPointer("CW721", pointee))
           [] std = "CW1155" -> PointerHexCase(GetPointer("CW1155", pointee))
           [] std = "ERC20" -> PointerStringCase(GetPointer("ERC20", HexToAddress(pointee)))
           [] std = "ERC721" -> PointerStringCase(GetPointer("ERC721", HexToAddress(pointee)))
           [] std = "ERC1155" -> PointerStringCase(GetPointer("ERC1155", HexToAddress(pointee)))
           [] OTHER -> Success(QueryPointerResponse(EmptyString, 0, FALSE))

\* Querier.Pointer
Pointer(std, pointee) ==
    IF pointee = EmptyString THEN Failure("ErrMustSpecifyPointee")
    ELSE CASE std = "NATIVE" -> PointerHexCase(GetPointer("NATIVE", pointee))
           [] std = "CW20" -> PointerHexCase(GetPointer("CW20", pointee))
           [] std = "CW721" -> PointerHexCase(GetPointer("CW721", pointee))
           [] std = "CW1155" -> PointerHexCase(GetPointer("CW1155", pointee))
           [] std = "ERC20" -> PointerStringCase(GetPointer("ERC20", HexToAddress(pointee)))
           [] std = "ERC721" -> PointerStringCase(GetPointer("ERC721", HexToAddress(pointee)))
           [] std = "ERC1155" -> PointerStringCase(GetPointer("ERC1155", HexToAddress(pointee)))
           [] OTHER -> Failure("ErrUnsupported")

\* &types.QueryPointerVersionResponse{Version, CwCodeId}
QueryPointerVersionResponse(version, cwCodeId) ==
    [nil |-> FALSE, version |-> version, cwCodeId |-> cwCodeId]

\* PointerVersion with the ERC20 code id copied into the CW20 case.
PointerVersionCodeIDForCW20(std) ==
    CASE std = "NATIVE" -> Success(QueryPointerVersionResponse(CurrentVersion("NATIVE"), 0))
      [] std = "CW20" ->
            Success(QueryPointerVersionResponse(CurrentVersion("CW20"), GetStoredPointerCodeID("ERC20")))
      [] std = "CW721" -> Success(QueryPointerVersionResponse(CurrentVersion("CW721"), 0))
      [] std = "CW1155" -> Success(QueryPointerVersionResponse(CurrentVersion("CW1155"), 0))
      [] std = "ERC20" ->
            Success(QueryPointerVersionResponse(CurrentVersion("ERC20"), GetStoredPointerCodeID("ERC20")))
      [] std = "ERC721" ->
            Success(QueryPointerVersionResponse(CurrentVersion("ERC721"), GetStoredPointerCodeID("ERC721")))
      [] std = "ERC1155" ->
            Success(QueryPointerVersionResponse(CurrentVersion("ERC1155"), GetStoredPointerCodeID("ERC1155")))
      [] OTHER -> Failure("ErrUnsupported")

\* Querier.PointerVersion
PointerVersion(std) ==
    CASE std = "NATIVE" -> Success(QueryPointerVersionResponse(CurrentVersion("NATIVE"), 0))
      [] std = "CW20" -> Success(QueryPointerVersionResponse(CurrentVersion("CW20"), 0))
      [] std = "CW721" -> Success(QueryPointerVersionResponse(CurrentVersion("CW721"), 0))
      [] std = "CW1155" -> Success(QueryPointerVersionResponse(CurrentVersion("CW1155"), 0))
      [] std = "ERC20" ->
            Success(QueryPointerVersionResponse(CurrentVersion("ERC20"), GetStoredPointerCodeID("ERC20")))
      [] std = "ERC721" ->
            Success(QueryPointerVersionResponse(CurrentVersion("ERC721"), GetStoredPointerCodeID("ERC721")))
      [] std = "ERC1155" ->
            Success(QueryPointerVersionResponse(CurrentVersion("ERC1155"), GetStoredPointerCodeID("ERC1155")))
      [] OTHER -> Failure("ErrUnsupported")

\* &types.QueryPointeeResponse{Pointee, Version, Exists}
QueryPointeeResponse(pointee, version, exists) ==
    [nil |-> FALSE, pointee |-> pointee, version |-> version, exists |-> exists]

\* One case of Pointee's switch over a CW-side type: the pointee is a string.
PointeePlainCase(g) ==
    IF ~g.e THEN Success(QueryPointeeResponse(EmptyString, 0, g.e))
    ELSE Success(QueryPointeeResponse(g.p, g.v, g.e))

\* One case of Pointee's switch over an ERC-side type: p.Hex().
PointeeHexCase(g) ==
    IF ~g.e THEN Success(QueryPointeeResponse(EmptyString, 0, g.e))
    ELSE Success(QueryPointeeResponse(Hex(g.p), g.v, g.e))

\* Pointee with the ERC721 case reading the ERC20 registry (a case copied and
\* not adapted).
PointeeCopiedCase(std, pointer) ==
    IF pointer = EmptyString THEN Failure("ErrMustSpecifyPointer")
    ELSE CASE std = "NATIVE" -> PointeePlainCase(GetNativePointee(pointer))
           [] std = "CW20" -> PointeePlainCase(GetPointeeByAddress("CW20", HexToAddress(pointer)))
           [] std = "CW721" -> PointeePlainCase(GetPointeeByAddress("CW721", HexToAddress(pointer)))
           [] std = "CW1155" -> PointeePlainCase(GetPointeeByAddress("CW1155", HexToAddress(pointer)))
           [] std = "ERC20" -> PointeeHexCase(GetPointeeByString("ERC20", pointer))
           [] std = "ERC721" -> PointeeHexCase(GetPointeeByString("ERC20", pointer))
           [] std = "ERC1155" -> PointeeHexCase(GetPointeeByString("ERC1155", pointer))
           [] OTHER -> Failure("ErrUnsupported")

\* Querier.Pointee
Pointee(std, pointer) ==
    IF pointer = EmptyString THEN Failure("ErrMustSpecifyPointer")
    ELSE CASE std = "NATIVE" -> PointeePlainCase(GetNativePointee(pointer))
           [] std = "CW20" -> PointeePlainCase(GetPointeeByAddress("CW20", HexToAddress(pointer)))
           [] std = "CW721" -> PointeePlainCase(GetPointeeByAddress("CW721", HexToAddress(pointer)))
           [] std = "CW1155" -> PointeePlainCase(GetPointeeByAddress("CW1155", HexToAddress(pointer)))
           [] std = "ERC20" -> PointeeHexCase(GetPointeeByString("ERC20", pointer))
           [] std = "ERC721" -> PointeeHexCase(GetPointeeByString("ERC721", pointer))
           [] std = "ERC1155" -> PointeeHexCase(GetPointeeByString("ERC1155", pointer))
           [] OTHER -> Failure("ErrUnsupported")

\* Querier.SeiAddressByEVMAddress
SeiAddressByEVMAddress(evmAddress) ==
    IF evmAddress = EmptyString THEN Failure("ErrInvalidRequest")
    ELSE LET g == GetSeiAddress(HexToAddress(evmAddress))
         IN  IF ~g.found
             THEN Success([nil |-> FALSE, address |-> EmptyString, associated |-> FALSE])
             ELSE Success([nil |-> FALSE, address |-> AccString(g.addr), associated |-> TRUE])

\* Querier.EVMAddressBySeiAddress
EVMAddressBySeiAddress(seiAddress) ==
    IF seiAddress = EmptyString THEN Failure("ErrInvalidRequest")
    ELSE LET d == AccAddressFromBech32(seiAddress)
         IN  IF d.err # "nil" THEN Failure(d.err)
             ELSE LET g == GetEVMAddress(d.addr)
                  IN  IF ~g.found
                      THEN Success([nil |-> FALSE, address |-> EmptyString, associated |-> FALSE])
                      ELSE Success([nil |-> FALSE, address |-> Hex(g.addr), associated |-> TRUE])

-----------------------------------------------------------------------------
(* The static call.                                                        *)

\* The most gas a meter, the configuration or a call is given in the model.
MaxGas == 2

\* A gas meter: its limit and the gas consumed.  Limit() = 0 is a meter without a
\* limit (the sdk's infinite meter reports 0).
GasMeter(limit, consumed) == [limit |-> limit, consumed |-> consumed]

\* sdk.NewGasMeterWithMultiplier(ctx, limit): a fresh meter with nothing consumed.
NewGasMeterWithMultiplier(limit) == GasMeter(limit, 0)

\* AccountKeeper().GetModuleAddress(types.ModuleName): an address no request string
\* of the model decodes to.
ModuleAddress == <<238>>

CallData == {<<>>, <<1>>}

\* What the engine does with a call: it succeeds with an output or reverts with
\* revert data, and needs some gas.
Runs ==
    [kind : {"ok", "revert"}, output : {<<>>, <<7>>}, gasNeeded : 0..(MaxGas + 1)]

\* Keeper.StaticCallEVM: runs the call in a copy of the state, which it discards
\* (state: the EVM state afterwards; copy: the copy the call ran in), under the
\* context's gas meter.  A meter with a limit stops the call with out-of-gas when
\* the call needs more than is left.
StaticCallEVM(call, meter, run) ==
    IF meter.limit # 0 /\ run.gasNeeded > meter.limit - meter.consumed
    THEN [ret |-> <<>>, err |-> "ErrOutOfGas", state |-> evmState, copy |-> evmState,
          meter |-> GasMeter(meter.limit, meter.limit)]
    ELSE [ret |-> run.output,
          err |-> IF run.kind = "revert" THEN "ErrExecutionReverted" ELSE "nil",
          state |-> evmState, copy |-> evmState + 1,
          meter |-> GasMeter(meter.limit, meter.consumed + run.gasNeeded)]

\* The context a handler ends with: the caller's (ambient) meter, the meter in
\* effect, and whether the handler replaced the meter.
Context(ambient, meter, replaced) ==
    [ambient |-> ambient, meter |-> meter, replaced |-> replaced]

\* StaticCall that keeps the ambient meter whatever its limit.
StaticCallAmbientMeter(to, data, ambient, run) ==
    IF to = EmptyString
    THEN [out |-> Failure("ErrStaticCallCreate"), calls |-> {},
          ctx |-> Context(ambient, ambient, FALSE), state |-> evmState]
    ELSE LET call == [caller |-> ModuleAddress, to |-> HexToAddress(to), data |-> data,
                      gasLimit |-> ambient.limit]
             r == StaticCallEVM(call, ambient, run)
         IN  [out |-> IF r.err # "nil" THEN Failure(r.err)
                      ELSE Success([nil |-> FALSE, data |-> r.ret]),
              calls |-> {[call |-> call, ret |-> r.ret, err |-> r.err]},
              ctx |-> Context(r.meter, r.meter, FALSE),
              state |-> r.state]

\* StaticCall without the check of the target.
StaticCallNoTargetCheck(to, data, ambient, run) ==
    LET replaced == ambient.limit = 0
        meter == IF replaced THEN NewGasMeterWithMultiplier(queryGasLimit) ELSE ambient
        call == [caller |-> ModuleAddress, to |-> HexToAddress(to), data |-> data,
                 gasLimit |-> meter.limit]
        r == StaticCallEVM(call, meter, run)
    IN  [out |-> IF r.err # "nil" THEN Failure(r.err)
                 ELSE Success([nil |-> FALSE, data |-> r.ret]),
         calls |-> {[call |-> call, ret |-> r.ret, err |-> r.err]},
         ctx |-> Context(IF replaced THEN ambient ELSE r.meter, r.meter, replaced),
         state |-> r.state]

\* StaticCall that drops the error of the engine and answers with its bytes.
StaticCallErrorDropped(to, data, ambient, run) ==
    IF to = EmptyString
    THEN [out |-> Failure("ErrStaticCallCreate"), calls |-> {},
          ctx |-> Context(ambient, ambient, FALSE), state |-> evmState]
    ELSE LET replaced == ambient.limit = 0
             meter == IF replaced THEN NewGasMeterWithMultiplier(queryGasLimit) ELSE ambient
             call == [caller |-> ModuleAddress, to |-> HexToAddress(to), data |-> data,
                      gasLimit |-> meter.limit]
             r == StaticCallEVM(call, meter, run)
         IN  [out |-> Success([nil |-> FALSE, data |-> r.ret]),
              calls |-> {[call |-> call, ret |-> r.ret, err |-> r.err]},
              ctx |-> Context(IF replaced THEN ambient ELSE r.meter, r.meter, replaced),
              state |-> r.state]

\* StaticCall that calls as the target address of the request.
StaticCallCallerFromRequest(to, data, ambient, run) ==
    IF to = EmptyString
    THEN [out |-> Failure("ErrStaticCallCreate"), calls |-> {},
          ctx |-> Context(ambient, ambient, FALSE), state |-> evmState]
    ELSE LET replaced == ambient.limit = 0
             meter == IF replaced THEN NewGasMeterWithMultiplier(queryGasLimit) ELSE ambient
             call == [caller |-> HexToAddress(to), to |-> HexToAddress(to), data |-> data,
                      gasLimit |-> meter.limit]
             r == StaticCallEVM(call, meter, run)
         IN  [out |-> IF r.err # "nil" THEN Failure(r.err)
                      ELSE Success([nil |-> FALSE, data |-> r.ret]),
              calls |-> {[call |-> call, ret |-> r.ret, err |-> r.err]},
              ctx |-> Context(IF replaced THEN ambient ELSE r.meter, r.meter, replaced),
              state |-> r.state]

\* Querier.StaticCall: [out: what is returned, calls: the calls made to the engine,
\* ctx: the gas meters afterwards, state: the EVM state afterwards].
StaticCall(to, data, ambient, run) ==
    IF to = EmptyString
    THEN [out |-> Failure("ErrStaticCallCreate"), calls |-> {},
          ctx |-> Context(ambient, ambient, FALSE), state |-> evmState]
    ELSE LET replaced == ambient.limit = 0
             meter == IF replaced THEN NewGasMeterWithMultiplier(queryGasLimit) ELSE ambient
             call == [caller |-> ModuleAddress, to |-> HexToAddress(to), data |-> data,
                      gasLimit |-> meter.limit]
             r == StaticCallEVM(call, meter, run)
         IN  [out |-> IF r.err # "nil" THEN Failure(r.err)
                      ELSE Success([nil |-> FALSE, data |-> r.ret]),
              calls |-> {[call |-> call, ret |-> r.ret, err |-> r.err]},
              ctx |-> Context(IF replaced THEN ambient ELSE r.meter, r.meter, replaced),
              state |-> r.state]

-----------------------------------------------------------------------------
(* The chain store is written by flows outside the query server (association, *)
(* pointer deployment, code upload, upgrades, transactions).  A query runs    *)
(* against one snapshot, so the store changes only between queries.           *)

\* The number of writes the outside flows make in a behaviour.
MaxWrites == 1

\* The addresses that get associated and registered.  Address.Hex() of the first
\* is all lower-case, of the second mixed-case.
RegAddresses == {<<160>>, <<170>>}

\* The native denominations that get a pointer.
Denoms == {<<"a">>, <<"x", "a">>}

\* What a pointer record of a type can hold as its pointee and as its pointer.
PointeeKeys(std) ==
    CASE std = "NATIVE" -> Denoms
      [] std \in {"CW20", "CW721", "CW1155"} -> {AccString(a) : a \in RegAddresses}
      [] OTHER -> RegAddresses

\* The address a deployment gives the pointer of a pointee: fixed by the
\* deployment, and different for different pointees.
OtherAddress(a) == CHOOSE b \in RegAddresses : b # a

DeployedAt(std, pointee) ==
    CASE std = "NATIVE" -> IF pointee = <<"a">> THEN <<160>> ELSE <<170>>
      [] std \in {"CW20", "CW721", "CW1155"} ->
            OtherAddress(CHOOSE a \in RegAddresses : AccString(a) = pointee)
      [] OTHER -> OtherAddress(pointee)

Writes ==
    Cardinality(pointers) + Cardinality(associations)
    + Cardinality({s \in ERCSide : codeIDs[s] # 0}) + (cw20Version - 1) + evmState

NoRequest == [op |-> "none"]

NoResponse == [err |-> "none", rsp |-> NilResponse]

NoGas == Context(GasMeter(0, 0), GasMeter(0, 0), FALSE)

Init ==
    /\ associations = {}
    /\ pointers = {}
    /\ codeIDs = [s \in ERCSide |-> 0]
    /\ cw20Version = 1
    /\ evmState = 0
    /\ queryGasLimit \in 0..MaxGas
    /\ evmCalls = {}
    /\ gas = NoGas
    /\ phase = "idle"
    /\ req = NoRequest
    /\ resp = NoResponse

\* The association flow: binds a sei address and an EVM address, one to one.
Associate ==
    /\ phase = "idle"
    /\ Writes < MaxWrites
    /\ \E s \in RegAddresses, e \in RegAddresses :
        /\ \A r \in associations : r.sei # s /\ r.evm # e
        /\ associations' = associations \cup {[sei |-> s, evm |-> e]}
    /\ UNCHANGED <<pointers, codeIDs, cw20Version, evmState, queryGasLimit,
                   evmCalls, gas, phase, req, resp>>

\* The pointer deployment flow: registers a pointer for a pointee, one to one
\* within a type, at the type's current version.
RegisterPointer ==
    /\ phase = "idle"
    /\ Writes < MaxWrites
    /\ \E std \in PointerTypes :
       \E k \in PointeeKeys(std) :
        LET p == DeployedAt(std, k)
        IN  /\ \A r \in pointers : r.std = std => r.pointee # k /\ r.pointer # p
            /\ pointers' = pointers \cup
                  {[std |-> std, pointee |-> k, pointer |-> p, version |-> CurrentVersion(std)]}
    /\ UNCHANGED <<associations, codeIDs, cw20Version, evmState, queryGasLimit,
                   evmCalls, gas, phase, req, resp>>

\* The first deployment of a CosmWasm pointer stores its code; code ids are given
\* out in sequence, from 1.
StoreCode ==
    /\ phase = "idle"
    /\ Writes < MaxWrites
    /\ \E std \in ERCSide :
        /\ codeIDs[std] = 0
        /\ codeIDs' = [codeIDs EXCEPT ![std] = 1 + Cardinality({s \in ERCSide : codeIDs[s] # 0})]
    /\ UNCHANGED <<associations, pointers, cw20Version, evmState, queryGasLimit,
                   evmCalls, gas, phase, req, resp>>

\* An upgrade activates the next CW20 pointer version.
UpgradeCW20 ==
    /\ phase = "idle"
    /\ Writes < MaxWrites
    /\ cw20Version' = cw20Version + 1
    /\ UNCHANGED <<associations, pointers, codeIDs, evmState, queryGasLimit,
                   evmCalls, gas, phase, req, resp>>

\* A transaction changes contract storage.
EvmTransaction ==
    /\ phase = "idle"
    /\ Writes < MaxWrites
    /\ evmState' = evmState + 1
    /\ UNCHANGED <<associations, pointers, codeIDs, cw20Version, queryGasLimit,
                   evmCalls, gas, phase, req, resp>>

-----------------------------------------------------------------------------
(* The query server: one request is handled at a time and its response       *)
(* returned; Return takes the server back to waiting.                        *)

AnyPointerType == PointerTypes \cup {UnknownPointerType}

\* Querier.SeiAddressByEVMAddress on a request with EvmAddress in K.
ServeSeiAddressByEVMAddress(K) ==
    /\ phase = "idle"
    /\ \E a \in K :
        /\ req' = [op |-> "SeiAddressByEVMAddress", address |-> a]
        /\ resp' = SeiAddressByEVMAddress(a)
    /\ phase' = "returned"
    /\ UNCHANGED <<associations, pointers, codeIDs, cw20Version, evmState,
                   queryGasLimit, evmCalls, gas>>

\* Querier.EVMAddressBySeiAddress on a request with SeiAddress in K.
ServeEVMAddressBySeiAddress(K) ==
    /\ phase = "idle"
    /\ \E a \in K :
        /\ req' = [op |-> "EVMAddressBySeiAddress", address |-> a]
        /\ resp' = EVMAddressBySeiAddress(a)
    /\ phase' = "returned"
    /\ UNCHANGED <<associations, pointers, codeIDs, cw20Version, evmState,
                   queryGasLimit, evmCalls, gas>>

\* Querier.Pointer on a request with Pointee in K.
ServePointer(K) ==
    /\ phase = "idle"
    /\ \E std \in AnyPointerType, k \in K :
        /\ req' = [op |-> "Pointer", std |-> std, key |-> k]
        /\ resp' = Pointer(std, k)
    /\ phase' = "returned"
    /\ UNCHANGED <<associations, pointers, codeIDs, cw20Version, evmState,
                   queryGasLimit, evmCalls, gas>>

\* Querier.Pointee on a request with Pointer in K.
ServePointee(K) ==
    /\ phase = "idle"
    /\ \E std \in AnyPointerType, k \in K :
        /\ req' = [op |-> "Pointee", std |-> std, key |-> k]
        /\ resp' = Pointee(std, k)
    /\ phase' = "returned"
    /\ UNCHANGED <<associations, pointers, codeIDs, cw20Version, evmState,
                   queryGasLimit, evmCalls, gas>>

\* Querier.PointerVersion on a request of any type.
ServePointerVersion ==
    /\ phase = "idle"
    /\ \E std \in AnyPointerType :
        /\ req' = [op |-> "PointerVersion", std |-> std]
        /\ resp' = PointerVersion(std)
    /\ phase' = "returned"
    /\ UNCHANGED <<associations, pointers, codeIDs, cw20Version, evmState,
                   queryGasLimit, evmCalls, gas>>

\* The gas meters a query context can come with: no limit, or a limit with part
\* of it consumed.
AmbientMeters == {m \in [limit : 0..MaxGas, consumed : 0..MaxGas] : m.consumed <= m.limit}

\* ServeStaticCall that keeps what the call wrote (one storage write per call).
ServeStaticCallCommitting(K) ==
    /\ phase = "idle"
    /\ \E to \in K, data \in CallData, ambient \in AmbientMeters, run \in Runs :
        LET r == StaticCall(to, data, ambient, run)
        IN  /\ req' = [op |-> "StaticCall", to |-> to, data |-> data, meter |-> ambient]
            /\ resp' = r.out
            /\ evmCalls' = r.calls
            /\ gas' = r.ctx
            /\ evmState' = evmState + Cardinality(r.calls)
    /\ phase' = "returned"
    /\ UNCHANGED <<associations, pointers, codeIDs, cw20Version, queryGasLimit>>

\* Querier.StaticCall on a request with To in K.
ServeStaticCall(K) ==
    /\ phase = "idle"
    /\ \E to \in K, data \in CallData, ambient \in AmbientMeters, run \in Runs :
        LET r == StaticCall(to, data, ambient, run)
        IN  /\ req' = [op |-> "StaticCall", to |-> to, data |-> data, meter |-> ambient]
            /\ resp' = r.out
            /\ evmCalls' = r.calls
            /\ gas' = r.ctx
            /\ evmState' = r.state
    /\ phase' = "returned"
    /\ UNCHANGED <<associations, pointers, codeIDs, cw20Version, queryGasLimit>>

\* The response is handed to the transport; the server waits for the next request.
Return ==
    /\ phase = "returned"
    /\ phase' = "idle"
    /\ req' = NoRequest
    /\ resp' = NoResponse
    /\ evmCalls' = {}
    /\ gas' = NoGas
    /\ UNCHANGED <<associations, pointers, codeIDs, cw20Version, evmState, queryGasLimit>>

\* The strings the full specification sends: the empty string, the forms of the
\* registered keys, and strings that are no address.
Probes ==
    {EmptyString, <<"x">>, <<"a", "a">>}
    \cup {Hex(a) : a \in RegAddresses} \cup {AccString(a) : a \in RegAddresses} \cup Denoms

\* The query server with the flows that write the store: every handler, on the
\* probe strings.
Next ==
    \/ Associate
    \/ RegisterPointer
    \/ StoreCode
    \/ UpgradeCW20
    \/ EvmTransaction
    \/ ServeSeiAddressByEVMAddress(Probes)
    \/ ServeEVMAddressBySeiAddress(Probes)
    \/ ServeStaticCall(Probes)
    \/ ServePointer(Probes)
    \/ ServePointerVersion
    \/ ServePointee(Probes)
    \/ Return

\* A server configured with a query gas limit.
InitConfigured == Init /\ queryGasLimit = MaxGas

Spec == InitConfigured /\ [][Next]_vars

\* The pointer queries on every request string.
NextPointer ==
    \/ RegisterPointer
    \/ StoreCode
    \/ UpgradeCW20
    \/ ServePointer(Strings)
    \/ ServePointerVersion
    \/ ServePointee(Strings)
    \/ Return

SpecPointer == InitConfigured /\ [][NextPointer]_vars

\* The address queries on every request string.
NextAddress ==
    \/ Associate
    \/ ServeSeiAddressByEVMAddress(Strings)
    \/ ServeEVMAddressBySeiAddress(Strings)
    \/ Return

SpecAddress == InitConfigured /\ [][NextAddress]_vars

\* The static call under every configured query gas limit, zero included.
NextStatic ==
    \/ EvmTransaction
    \/ ServeStaticCall(Probes)
    \/ Return

SpecStatic == Init /\ [][NextStatic]_vars

-----------------------------------------------------------------------------
(* The claims.                                                             *)

Returned(op) == phase = "returned" /\ req.op = op

\* Whether the registry holds a record for the key of a Pointer request, and for
\* the key of a Pointee request.
PointeeRegistered(std, key) ==
    \E r \in pointers :
        /\ r.std = std
        /\ r.pointee = (IF std \in ERCSide THEN HexToAddress(key) ELSE key)

PointerRegistered(std, key) ==
    \E r \in pointers :
        /\ r.std = std
        /\ IF std \in ERCSide THEN AccString(r.pointer) = key
           ELSE r.pointer = HexToAddress(key)

\* C1: for each of the seven types and every non-empty key without a record,
\* Pointer and Pointee succeed with exists = false, an empty string and version 0.
C1_UnregisteredKey ==
    /\ (Returned("Pointer") /\ req.std \in PointerTypes /\ req.key # EmptyString
            /\ ~PointeeRegistered(req.std, req.key))
        => resp = Success(QueryPointerResponse(EmptyString, 0, FALSE))
    /\ (Returned("Pointee") /\ req.std \in PointerTypes /\ req.key # EmptyString
            /\ ~PointerRegistered(req.std, req.key))
        => resp = Success(QueryPointeeResponse(EmptyString, 0, FALSE))

\* A Pointer request for a well-formed address without a record, in a type that
\* holds a record for another address.
C1_Witness ==
    /\ Returned("Pointer")
    /\ req.std = "ERC20"
    /\ IsHexAddress(req.key)
    /\ \E r \in pointers : r.std = "ERC20"
    /\ ~PointeeRegistered(req.std, req.key)
    /\ resp.err = "nil"
    /\ ~resp.rsp.exists

\* The form in which the server writes the key of a record: an EVM address in its
\* EIP-55 form, a denom or CosmWasm address as it is.
CanonicalPointee(std, key) ==
    IF std \in ERCSide THEN Hex(HexToAddress(key)) ELSE key

CanonicalPointer(std, key) ==
    IF std \in ERCSide THEN key ELSE Hex(HexToAddress(key))

\* C2 as stated: for a registered key, Pointer and then Pointee gives back the
\* string that was sent, and so does Pointee and then Pointer.
C2_RoundTripSameString ==
    /\ (Returned("Pointer") /\ resp.err = "nil" /\ resp.rsp.exists)
        => LET back == Pointee(req.std, resp.rsp.pointer)
           IN  back.err = "nil" /\ back.rsp.exists /\ back.rsp.pointee = req.key
    /\ (Returned("Pointee") /\ resp.err = "nil" /\ resp.rsp.exists)
        => LET back == Pointer(req.std, resp.rsp.pointee)
           IN  back.err = "nil" /\ back.rsp.exists /\ back.rsp.pointer = req.key

\* C2, amended: for a registered key, Pointer and then Pointee finds the record
\* again and gives the key in the server's form: the string that was sent for a
\* denom or a CosmWasm address, Hex(HexToAddress(key)) for an EVM address; and the
\* same for Pointee and then Pointer.  The version is the same both ways.
C2_RoundTripCanonical ==
    /\ (Returned("Pointer") /\ resp.err = "nil" /\ resp.rsp.exists)
        => LET back == Pointee(req.std, resp.rsp.pointer)
           IN  /\ back.err = "nil"
               /\ back.rsp.exists
               /\ back.rsp.pointee = CanonicalPointee(req.std, req.key)
               /\ back.rsp.version = resp.rsp.version
    /\ (Returned("Pointee") /\ resp.err = "nil" /\ resp.rsp.exists)
        => LET back == Pointer(req.std, resp.rsp.pointee)
           IN  /\ back.err = "nil"
               /\ back.rsp.exists
               /\ back.rsp.pointer = CanonicalPointer(req.std, req.key)
               /\ back.rsp.version = resp.rsp.version

\* A Pointer request that found the record of an EVM address written in another
\* form than the server's.
C2_Witness ==
    /\ Returned("Pointer")
    /\ req.std = "ERC721"
    /\ resp.err = "nil"
    /\ resp.rsp.exists
    /\ IsHexAddress(req.key)
    /\ req.key # Hex(HexToAddress(req.key))
    /\ Pointee(req.std, resp.rsp.pointer).rsp.pointee = Hex(HexToAddress(req.key))

\* C3 as stated: a type outside the seven gets ErrUnsupported and no response from
\* Pointer, Pointee and PointerVersion, whatever else the request holds.
C3_UnknownTypeAlwaysUnsupported ==
    (phase = "returned" /\ req.op \in {"Pointer", "Pointee", "PointerVersion"}
        /\ req.std \notin PointerTypes)
    => resp = Failure("ErrUnsupported")

\* C3, amended: a type outside the seven gets ErrUnsupported and no response from
\* PointerVersion, and from Pointer and Pointee when the key is not empty; with an
\* empty key Pointer fails with ErrMustSpecifyPointee and Pointee with
\* ErrMustSpecifyPointer.
C3_UnknownType ==
    /\ (Returned("PointerVersion") /\ req.std \notin PointerTypes)
        => resp = Failure("ErrUnsupported")
    /\ (Returned("Pointer") /\ req.std \notin PointerTypes)
        => resp = IF req.key = EmptyString THEN Failure("ErrMustSpecifyPointee")
                  ELSE Failure("ErrUnsupported")
    /\ (Returned("Pointee") /\ req.std \notin PointerTypes)
        => resp = IF req.key = EmptyString THEN Failure("ErrMustSpecifyPointer")
                  ELSE Failure("ErrUnsupported")

\* A Pointer request of an unknown type for a key that is registered in a known
\* type.
C3_Witness ==
    /\ Returned("Pointer")
    /\ req.std = UnknownPointerType
    /\ \E r \in pointers : r.std \in CWSide /\ r.pointee = req.key
    /\ resp.err = "ErrUnsupported"
    /\ resp.rsp.nil

\* C4: both address lookups reject an empty or malformed address with an error and
\* no response, and answer a well-formed address without an association with
\* associated = false and an empty address; the two are never confused.
C4_MalformedRejected ==
    /\ Returned("SeiAddressByEVMAddress") =>
        IF ~IsHexAddress(req.address) THEN resp.err # "nil" /\ resp.rsp.nil
        ELSE (~GetSeiAddress(HexToAddress(req.address)).found
                => resp = Success([nil |-> FALSE, address |-> EmptyString, associated |-> FALSE]))
    /\ Returned("EVMAddressBySeiAddress") =>
        IF ~IsBech32(req.address) THEN resp.err # "nil" /\ resp.rsp.nil
        ELSE (~GetEVMAddress(AccAddressFromBech32(req.address).addr).found
                => resp = Success([nil |-> FALSE, address |-> EmptyString, associated |-> FALSE]))

C6_EmptyTarget ==
    (Returned("StaticCall") /\ req.to = EmptyString)
    => /\ resp.err # "nil"
       /\ resp.rsp.nil
       /\ evmCalls = {}
       /\ ~gas.replaced
       /\ gas.ambient = req.meter
       /\ gas.meter = req.meter

\* A static call without a target in a context whose meter has no limit.
C6_Witness ==
    /\ Returned("StaticCall")
    /\ req.to = EmptyString
    /\ req.meter.limit = 0
    /\ resp.err = "ErrStaticCallCreate"

\* C7: no query changes the store: a step in which a handler runs leaves the
\* associations, the pointer records, the versions and code ids, and the EVM state
\* as they were.
C7_QueriesReadOnly ==
    [][(phase = "idle" /\ phase' = "returned") => store' = store]_vars

\* A static call that reached the engine, against a store that holds contract
\* state.
C7_Witness ==
    /\ Returned("StaticCall")
    /\ evmCalls # {}
    /\ evmState # 0
    /\ resp.err = "nil"

\* C8: a static call returns an error and no response when the call to the engine
\* failed, and a response only when it succeeded, with the bytes it returned.
C8_FailureIsAnError ==
    Returned("StaticCall") =>
        /\ \A c \in evmCalls :
            /\ c.err # "nil" => resp = Failure(c.err)
            /\ c.err = "nil" => resp = Success([nil |-> FALSE, data |-> c.ret])
        /\ ~resp.rsp.nil => \E c \in evmCalls : c.err = "nil"

\* A call that reverted with revert data.
C8_Witness ==
    /\ Returned("StaticCall")
    /\ \E c \in evmCalls : c.err = "ErrExecutionReverted" /\ c.ret # <<>>
    /\ resp.rsp.nil

\* C9: every call that reaches the engine is made as the module's own account,
\* whatever the request holds.
C9_CallerIsModule ==
    \A c \in evmCalls : c.call.caller = ModuleAddress

\* A call to an address of the request, with call data.
C9_Witness ==
    /\ Returned("StaticCall")
    /\ \E c \in evmCalls : c.call.to = <<170>> /\ c.call.data # <<>> /\ c.call.to # c.call.caller

\* C10: PointerVersion succeeds for each of the seven types in every chain state;
\* it reports the type's current version, the stored code id (zero while none is
\* stored) for ERC20, ERC721 and ERC1155, and code id zero for the other types.
C10_PointerVersion ==
    (Returned("PointerVersion") /\ req.std \in PointerTypes)
    => /\ resp.err = "nil"
       /\ ~resp.rsp.nil
       /\ resp.rsp.version = CurrentVersion(req.std)
       /\ resp.rsp.version >= 1
       /\ resp.rsp.cwCodeId = (IF req.std \in ERCSide THEN codeIDs[req.std] ELSE 0)

\* PointerVersion of a type without stored code, while another type has some.
C10_Witness ==
    /\ Returned("PointerVersion")
    /\ req.std = "ERC721"
    /\ codeIDs["ERC721"] = 0
    /\ codeIDs["ERC20"] # 0
    /\ resp.err = "nil"
    /\ resp.rsp.cwCodeId = 0

====
